---- MODULE Spec2Model ----
(***************************************************************************)
(* TensorExprKernel (torch/csrc/jit/tensorexpr/kernel.cpp): the fused      *)
(* kernel's construction (bindInput, createInputIndexExpr, ComputeValue),  *)
(* its backend lock-in (PickAndCheckBackendType, LowerToBackend) and its   *)
(* run-time binder (run, CodeGenRun), as a state machine.                  *)
(***************************************************************************)
EXTENDS Integers, Sequences, FiniteSets, TLC

VARIABLES
  te_cuda_pointwise_loop_levels, \* static int, kernel.cpp:12
  te_cuda_pointwise_block_count, \* static int, kernel.cpp:13
  te_cuda_pointwise_block_size,  \* static int, kernel.cpp:14
  enable_llvm,                   \* whether the build defines ENABLE_LLVM
  graph,                         \* the subgraph the kernel was constructed from
  n_inputs_,                     \* TensorExprKernel::n_inputs_
  kernelArgs_,                   \* TensorExprKernel::kernelArgs_
  tensors_,                      \* TensorExprKernel::tensors_ (non-output tensors)
  tensor_outputs_,               \* TensorExprKernel::tensor_outputs_
  backend_type_,                 \* TensorExprKernel::backend_type_
  device_,                       \* TensorExprKernel::device_
  codegen_,                      \* TensorExprKernel::codegen_
  stack,                         \* the caller's operand stack
  hist,                          \* what the run() calls so far did, in total
  last,                          \* what the latest run() call did
  call,                          \* the helper, or the concurrent calls, under way
  ret                            \* the result

kernelVars == <<graph, n_inputs_, kernelArgs_, tensors_, tensor_outputs_>>
lockVars == <<backend_type_, device_, codegen_>>
knobVars == <<te_cuda_pointwise_loop_levels, te_cuda_pointwise_block_count,
              te_cuda_pointwise_block_size>>
runVars == <<stack, hist, last>>
fnVars == <<call, ret>>
vars == <<knobVars, enable_llvm, kernelVars, lockVars, runVars, fnVars>>

----------------------------------------------------------------------------
(* Sequence helpers.                                                       *)

Reverse(s) == [i \in 1..Len(s) |-> s[Len(s) + 1 - i]]

Max2(a, b) == IF a >= b THEN a ELSE b

RECURSIVE Concat(_)
Concat(ss) == IF ss = <<>> THEN <<>> ELSE Head(ss) \o Concat(Tail(ss))

----------------------------------------------------------------------------
(* The scalar expression IR, as far as kernel.cpp builds it.  A float      *)
(* immediate holds its value in tenths (20 is 2.0f, 5 is 0.5f, 27 2.7f).    *)

kInt32 == "int"
kFloat32 == "float"

IntImm(v) == [k |-> "IntImm", v |-> v]
FloatImm(t) == [k |-> "FloatImm", v |-> t]
VarHandle(name, dtype) == [k |-> "Var", name |-> name, dtype |-> dtype]
Cast(dtype, e) == [k |-> "Cast", dtype |-> dtype, src |-> e]
Add(l, r) == [k |-> "Add", l |-> l, r |-> r]
Mul(l, r) == [k |-> "Mul", l |-> l, r |-> r]
Div(l, r) == [k |-> "Div", l |-> l, r |-> r]
Intrinsic(op, args) == [k |-> "Intrinsics", op |-> op, args |-> args]

\* static bool isOne(ExprHandle e)
isOne(e) == e.k = "IntImm" /\ e.v = 1

----------------------------------------------------------------------------
(* broadcastShapes: both shapes are walked from their last dimension, the  *)
(* picked dimensions are pushed in that order and the result is reversed.  *)

\* line 155: ExprHandle dim = isOne(*at) ? *bt : *at;
BroadcastDimKeepFirst(at, bt) == at

BroadcastDim(at, bt) == IF isOne(at) THEN bt ELSE at

RECURSIVE BroadcastWalk(_, _, _)
BroadcastWalk(at, bt, acc) ==
  IF at = <<>> /\ bt = <<>> THEN acc
  ELSE IF at = <<>> THEN BroadcastWalk(at, Tail(bt), Append(acc, Head(bt)))
  ELSE IF bt = <<>> THEN BroadcastWalk(Tail(at), bt, Append(acc, Head(at)))
  ELSE BroadcastWalk(Tail(at), Tail(bt), Append(acc, BroadcastDim(Head(at), Head(bt))))

broadcastShapes(a, b) == Reverse(BroadcastWalk(Reverse(a), Reverse(b), <<>>))

----------------------------------------------------------------------------
(* The subgraph.  An input is declared a tensor (static sizes, a negative  *)
(* size standing for an unknown one, and one contiguity flag per axis) or  *)
(* a float or int scalar.  Input number i (from 0) has unique() = i.  An   *)
(* output is an elementwise node over one or two of the inputs.            *)

TensorType(sizes, contiguity) ==
  [kind |-> "TensorType", sizes |-> sizes, contiguity |-> contiguity]
FloatType == [kind |-> "FloatType", sizes |-> <<>>, contiguity |-> <<>>]
IntType == [kind |-> "IntType", sizes |-> <<>>, contiguity |-> <<>>]

Rank(t) == Len(t.sizes)

\* the axis variables Compute hands to the body function
AxisVar(i) == VarHandle("i" \o ToString(i), kInt32)
Axes(rank) == [i \in 1..rank |-> AxisVar(i - 1)]

\* bindInput, lines 1013-1016: the size variable of axis i of input `unique`
SizeVar(unique, i) ==
  VarHandle("size_" \o ToString(unique) \o "_" \o ToString(i), kInt32)

\* createInputIndexExpr, lines 973-975
StrideVar(bufname, i) ==
  VarHandle("stride_" \o bufname \o "_" \o ToString(i), kInt32)

BufferName(unique) == "t" \o ToString(unique)

\* bindInput, lines 1009-1017: sizeVars.emplace(size, v) keeps the first
\* variable emplaced under a sentinel
SizeVarsOf(unique, sizes) ==
  [s \in {sizes[i] : i \in {j \in 1..Len(sizes) : sizes[j] < 0}} |->
     SizeVar(unique, (CHOOSE i \in 1..Len(sizes) :
                        /\ sizes[i] = s
                        /\ \A j \in 1..(i - 1) : sizes[j] # s) - 1)]

\* bindInput, lines 1010-1022: the symbolic tensor's shape
InputTensorDims(unique, sizes) ==
  [i \in 1..Len(sizes) |->
     IF sizes[i] < 0 THEN SizeVar(unique, i - 1) ELSE IntImm(sizes[i])]

ShapeArg(idx, var) == [idx |-> idx, var |-> var]

\* line 972: iteration i of the loop (which handles axis n - i) reads
\* *contiguity[i]
ContiguityFlag(contiguity, n, i) == contiguity[i + 1]

\* createInputIndexExpr, lines 970-995: iteration i of the loop over a state
\* [index, stride, sizeArgs, strideArgs]
IndexStep(st, i, n, bufname, axes, sizes, contiguity, sizeVars) ==
  LET discontiguous == ~ContiguityFlag(contiguity, n, i)
      v == StrideVar(bufname, i)
      stride1 == IF discontiguous THEN v ELSE st.stride
      sizeVal == sizes[(n - i) + 1]
      size == IF sizeVal < 0 THEN sizeVars[sizeVal] ELSE IntImm(sizeVal)
  IN [index |-> Add(st.index, Mul(axes[(n - i) + 1], stride1)),
      stride |-> Mul(stride1, size),
      sizeArgs |-> IF sizeVal < 0
                   THEN Append(st.sizeArgs, ShapeArg(n - i, sizeVars[sizeVal]))
                   ELSE st.sizeArgs,
      strideArgs |-> IF discontiguous
                     THEN Append(st.strideArgs, ShapeArg(n - i, v))
                     ELSE st.strideArgs]

RECURSIVE IndexLoop(_, _, _, _, _, _, _, _)
IndexLoop(st, i, n, bufname, axes, sizes, contiguity, sizeVars) ==
  IF i > n THEN st
  ELSE IndexLoop(IndexStep(st, i, n, bufname, axes, sizes, contiguity, sizeVars),
                 i + 1, n, bufname, axes, sizes, contiguity, sizeVars)

\* createInputIndexExpr: the index expression and the kernel argument it
\* appends to kernelArgs_
createInputIndexExpr(bufname, axes, sizes, contiguity, sizeVars) ==
  LET st == IndexLoop([index |-> IntImm(0), stride |-> IntImm(1),
                       sizeArgs |-> <<>>, strideArgs |-> <<>>],
                      0, Len(axes) - 1, bufname, axes, sizes, contiguity, sizeVars)
  IN [index |-> st.index,
      kernelArg |-> [buffer |-> bufname, sizes |-> st.sizeArgs,
                     strides |-> st.strideArgs]]

\* bindInput: the symbolic tensor (or scalar) and the kernel argument of one input
bindInput(input, unique) ==
  IF input.kind = "TensorType"
  THEN LET dims == InputTensorDims(unique, input.sizes)
           e == createInputIndexExpr(BufferName(unique), Axes(Len(dims)), input.sizes,
                                     input.contiguity, SizeVarsOf(unique, input.sizes))
       IN [isTensor |-> TRUE, dims |-> dims, body |-> e.index, kernelArg |-> e.kernelArg]
  ELSE [isTensor |-> FALSE, dims |-> <<>>,
        body |-> VarHandle("v" \o ToString(unique),
                           IF input.kind = "FloatType" THEN kFloat32 ELSE kInt32),
        kernelArg |-> [buffer |-> "v" \o ToString(unique), sizes |-> <<>>,
                       strides |-> <<>>]]

----------------------------------------------------------------------------
(* Nodes.  ComputeOneOperand and ComputeTwoOperand give a node's tensor    *)
(* the shape of its operand, or the broadcast of the shapes of its two.    *)

Node(operands) == [operands |-> operands]

\* valueShape: a value with no tensor in tensors_ has the shape {1}
valueShape(bound, v) ==
  IF bound[v + 1].isTensor THEN bound[v + 1].dims ELSE <<IntImm(1)>>

\* ComputeOneOperand / ComputeTwoOperand: the shape handed to Compute
ComputeShape(bound, node) ==
  IF Len(node.operands) = 1
  THEN valueShape(bound, node.operands[1])
  ELSE broadcastShapes(valueShape(bound, node.operands[1]),
                       valueShape(bound, node.operands[2]))

\* TensorExprKernel::TensorExprKernel: every input is bound in declaration
\* order, every node is computed and the outputs are moved out of tensors_
BoundInputs(g) == [i \in 1..Len(g.inputs) |-> bindInput(g.inputs[i], i - 1)]

KernelArgsOf(g) == [i \in 1..Len(g.inputs) |-> BoundInputs(g)[i].kernelArg]

TensorsOf(g) ==
  [i \in {j \in 1..Len(g.inputs) : BoundInputs(g)[j].isTensor} |->
     [dims |-> BoundInputs(g)[i].dims, body |-> BoundInputs(g)[i].body]]

TensorOutputsOf(g) ==
  [j \in 1..Len(g.outputs) |->
     [name |-> "aten_" \o ToString(Len(g.inputs) + j - 1),
      dims |-> ComputeShape(BoundInputs(g), g.outputs[j])]]

----------------------------------------------------------------------------
(* Run-time values.  A tensor is its device type, its sizes, its strides   *)
(* and its data address.                                                   *)

Tensor(device, sizes, strides, ptr) ==
  [kind |-> "Tensor", device |-> device, sizes |-> sizes, strides |-> strides,
   ptr |-> ptr]
IntValue(v) == [kind |-> "Int", v |-> v]
DoubleValue(v) == [kind |-> "Double", v |-> v]
NoneValue == [kind |-> "None"]

isTensor(v) == v.kind = "Tensor"

\* (int32_t) of a 64-bit integer; the sizes, strides and scalars the callers
\* pass are small enough to be kept
ToInt32(x) == x

\* (float) of a double; the doubles the callers pass are dyadic and short
\* enough to be floats
ToFloat(x) == x

\* last(stack, n) and drop(stack, n)
LastN(s, n) == SubSeq(s, Len(s) - n + 1, Len(s))
Drop(s, n) == SubSeq(s, 1, Len(s) - n)

\* the strides at::empty gives a tensor of these sizes
RECURSIVE ContiguousStrides(_)
ContiguousStrides(sizes) ==
  IF sizes = <<>> THEN <<>>
  ELSE LET rest == ContiguousStrides(Tail(sizes))
       IN <<IF rest = <<>> THEN 1 ELSE rest[1] * sizes[2]>> \o rest

----------------------------------------------------------------------------
(* PickAndCheckBackendType and LowerToBackend.                             *)

kUninitialized == "kUninitialized"
kSimpleIREval == "kSimpleIREval"
kLLVMCodeGen == "kLLVMCodeGen"
kCudaCodeGen == "kCudaCodeGen"

kCPU == "cpu"
kCUDA == "cuda"

kDefaultLoopLevels == 2
kDefaultBlockSize == 512
kDefaultBlockCount == 1280
kDefaultBlockSize3 == 256

NullCodeGen == [id |-> 0, name |-> "nullptr", params |-> <<>>, splits |-> <<>>]

\* lines 905-912: the device of the first tensor among the inputs
FirstTensor(inputs) ==
  inputs[CHOOSE i \in 1..Len(inputs) :
           isTensor(inputs[i]) /\ \A j \in 1..(i - 1) : ~isTensor(inputs[j])]

HasTensor(inputs) == \E i \in 1..Len(inputs) : isTensor(inputs[i])

\* lines 913-925: the backend a device type maps to
BackendOfAlwaysCuda(devtype, llvm) == kCudaCodeGen

BackendOf(devtype, llvm) ==
  IF devtype = kCUDA THEN kCudaCodeGen
  ELSE IF devtype = kCPU THEN (IF llvm THEN kLLVMCodeGen ELSE kSimpleIREval)
  ELSE kUninitialized

\* lines 820-826: an output with a dimension that is no IntImm is not tiled
dynamicShapes(dims) == \E i \in 1..Len(dims) : dims[i].k # "IntImm"

\* a slip: only a negative knob takes the default
LoopLevelsNegativeOnly(knob) == IF knob < 0 THEN kDefaultLoopLevels ELSE knob

\* lines 832-834
LoopLevels(knob) == IF knob > 0 THEN knob ELSE kDefaultLoopLevels

\* lines 838-862: the factors of the masked splits of one tiled output
SplitFactors(loop_levels, block_count, block_size) ==
  IF loop_levels = 2
  THEN <<IF block_size < 0 THEN kDefaultBlockSize ELSE block_size>>
  ELSE LET bc == IF block_count > 0 THEN block_count ELSE kDefaultBlockCount
           bs == IF block_size > 0 THEN block_size ELSE kDefaultBlockSize3
       IN <<bc * bs, bs>>

\* lines 781-784: total_count of an output
RECURSIVE TotalCount(_, _, _)
TotalCount(dims, i, acc) ==
  IF i > Len(dims) THEN acc ELSE TotalCount(dims, i + 1, Mul(acc, dims[i]))

\* lines 776-806: the outputs handed to the schedule
LoweredOutputs(backend_type) ==
  [i \in 1..Len(tensor_outputs_) |->
     IF backend_type = kCudaCodeGen
     THEN [name |-> tensor_outputs_[i].name \o "_flat",
           dims |-> <<TotalCount(tensor_outputs_[i].dims, 2,
                                 tensor_outputs_[i].dims[1])>>]
     ELSE tensor_outputs_[i]]

\* lines 814-864: whether the tiling loop throws "Invalid loop-level"
InvalidLoopLevel(backend_type) ==
  /\ backend_type = kCudaCodeGen
  /\ \E i \in 1..Len(tensor_outputs_) : ~dynamicShapes(tensor_outputs_[i].dims)
  /\ LoopLevels(te_cuda_pointwise_loop_levels) \notin {2, 3}

Splits(backend_type) ==
  [i \in 1..Len(tensor_outputs_) |->
     IF backend_type = kCudaCodeGen /\ ~dynamicShapes(tensor_outputs_[i].dims)
     THEN SplitFactors(LoopLevels(te_cuda_pointwise_loop_levels),
                       te_cuda_pointwise_block_count, te_cuda_pointwise_block_size)
     ELSE <<>>]

BufferArg(name) == [name |-> name]

ShapeVars(args) == [i \in 1..Len(args) |-> BufferArg(args[i].var.name)]

\* lines 868-881: the formal parameters
KernelArgParamsStridesFirst(arg) ==
  <<BufferArg(arg.buffer)>> \o ShapeVars(arg.strides) \o ShapeVars(arg.sizes)

KernelArgParams(arg) ==
  <<BufferArg(arg.buffer)>> \o ShapeVars(arg.sizes) \o ShapeVars(arg.strides)

FormalParams(kernelArgs, outputs) ==
  Concat([i \in 1..Len(kernelArgs) |-> KernelArgParams(kernelArgs[i])])
    \o [i \in 1..Len(outputs) |-> BufferArg(outputs[i].name)]

\* lines 884-899
CodeGenName(backend_type) ==
  IF backend_type = kCudaCodeGen THEN "cuda_codegen"
  ELSE IF backend_type = kLLVMCodeGen THEN "llvm_codegen"
  ELSE "simple_ir_eval"

\* LowerToBackend: the code generator it leaves in codegen_, when it returns
LowerToBackend(backend_type) ==
  [id |-> hist.created + 1,
   name |-> CodeGenName(backend_type),
   params |-> FormalParams(kernelArgs_, LoweredOutputs(backend_type)),
   splits |-> Splits(backend_type)]

\* line 927: if (backend_type_ == kUninitialized)
IsUninitializedAlways(backend_type) == TRUE

IsUninitialized(backend_type) == backend_type = kUninitialized

\* PickAndCheckBackendType: the error it throws ("" when it returns) and the
\* members as it leaves them
PickAndCheckBackendType(inputs) ==
  LET keep == [error |-> "", backend_type_ |-> backend_type_, device_ |-> device_,
               codegen_ |-> codegen_, lowered |-> FALSE, created |-> FALSE]
  IN IF ~HasTensor(inputs) THEN [keep EXCEPT !.error = "No tensor inputs"]
     ELSE LET device == FirstTensor(inputs).device
              backend_type == BackendOf(device, enable_llvm)
          IN IF backend_type = kUninitialized
             THEN [keep EXCEPT !.error = "Invalid device type"]
             ELSE IF IsUninitialized(backend_type_)
             THEN IF InvalidLoopLevel(backend_type)
                  THEN [keep EXCEPT !.error = "Invalid loop-level",
                                    !.backend_type_ = backend_type,
                                    !.device_ = device, !.lowered = TRUE]
                  ELSE [keep EXCEPT !.backend_type_ = backend_type,
                                    !.device_ = device,
                                    !.codegen_ = LowerToBackend(backend_type),
                                    !.lowered = TRUE, !.created = TRUE]
             ELSE IF backend_type_ # backend_type
             THEN [keep EXCEPT !.error = "Inconsistent backend_type"]
             ELSE keep

----------------------------------------------------------------------------
(* run: the call arguments, the output shapes and the stack.               *)

CallArg(kind, v) == [kind |-> kind, v |-> v]

SizeArgs(arg, tensor) ==
  [k \in 1..Len(arg.sizes) |-> CallArg("int", ToInt32(tensor.sizes[arg.sizes[k].idx + 1]))]

StrideArgs(arg, tensor) ==
  [k \in 1..Len(arg.strides) |->
     CallArg("int", ToInt32(tensor.strides[arg.strides[k].idx + 1]))]

\* lines 1096-1112: what one input appends to run_args
InputCallArgs(arg, input) ==
  IF input.kind = "Int" THEN <<CallArg("int", ToInt32(input.v))>>
  ELSE IF input.kind = "Double" THEN <<CallArg("float", ToFloat(input.v))>>
  ELSE IF input.kind = "Tensor"
  THEN <<CallArg("ptr", input.ptr)>> \o SizeArgs(arg, input) \o StrideArgs(arg, input)
  ELSE <<>>

\* lines 1103-1107: the writes to varToSize, in order
SizeWrites(kernelArgs, inputs) ==
  Concat([i \in 1..Len(inputs) |->
            IF isTensor(inputs[i])
            THEN [k \in 1..Len(kernelArgs[i].sizes) |->
                    [var |-> kernelArgs[i].sizes[k].var.name,
                     s |-> ToInt32(inputs[i].sizes[kernelArgs[i].sizes[k].idx + 1])]]
            ELSE <<>>])

\* varToSize when the loop over the inputs ends: the last write to each key
VarToSize(kernelArgs, inputs) ==
  LET w == SizeWrites(kernelArgs, inputs)
  IN [name \in {w[k].var : k \in 1..Len(w)} |->
        w[CHOOSE k \in 1..Len(w) :
            w[k].var = name /\ \A m \in (k + 1)..Len(w) : w[m].var # name].s]

\* lines 1118-1127: a dimension of an output resolves, or TORCH_CHECK(s) fails
Resolves(dim, varToSize) ==
  (dim.k = "Var" /\ dim.name \in DOMAIN varToSize) \/ dim.k = "IntImm"

\* a map that outlives the call and keeps what the first call wrote
ResolveDimStale(dim, varToSize) ==
  IF dim.k = "Var" /\ dim.name \in DOMAIN varToSize
  THEN (IF hist.firstSize # 0 THEN hist.firstSize ELSE varToSize[dim.name])
  ELSE dim.v

ResolveDim(dim, varToSize) ==
  IF dim.k = "Var" /\ dim.name \in DOMAIN varToSize THEN varToSize[dim.name]
  ELSE dim.v

tensorSize(o, varToSize) == [d \in 1..Len(o.dims) |-> ResolveDim(o.dims[d], varToSize)]

UsedPtrs(s) == {s[i].ptr : i \in {j \in 1..Len(s) : isTensor(s[j])}}

\* the addresses of m new allocations: none is in use
RECURSIVE FreshPtrs(_, _, _)
FreshPtrs(used, m, p) ==
  IF m = 0 THEN <<>>
  ELSE IF p \in used THEN FreshPtrs(used, m, p + 1)
  ELSE <<p>> \o FreshPtrs(used, m - 1, p + 1)

\* lines 1115-1132: the output tensors
Outputs(outs, varToSize, device, used) ==
  LET ptrs == FreshPtrs(used, Len(outs), 1)
  IN [j \in 1..Len(outs) |->
        Tensor(device, tensorSize(outs[j], varToSize),
               ContiguousStrides(tensorSize(outs[j], varToSize)), ptrs[j])]

\* lines 1093-1132: run_args
RunArgs(kernelArgs, inputs, outputs) ==
  Concat([i \in 1..Len(inputs) |-> InputCallArgs(kernelArgs[i], inputs[i])])
    \o [j \in 1..Len(outputs) |-> CallArg("ptr", outputs[j].ptr)]

\* lines 1137-1141
UpdateStackKeepInputs(s, n, outputs) == s \o outputs

UpdateStack(s, n, outputs) == Drop(s, n) \o outputs

----------------------------------------------------------------------------
(* The subgraphs kernels are constructed from and the operands callers     *)
(* present.                                                                *)

BaseDepth == 1
MaxStack == 3

InputCounts == {1, 2}
OutputCounts == {1, 2}
DynSizes == {4, 9}
Devices == {kCPU, kCUDA, "xla"}
LoopLevelVals == {-1, 3, 4}

RECURSIVE Tuples(_)
Tuples(sets) ==
  IF sets = <<>> THEN {<<>>}
  ELSE {<<h>> \o t : h \in Head(sets), t \in Tuples(Tail(sets))}

\* the declared types of the inputs: scalars, a static and a dynamic vector,
\* a matrix with an unknown row count and one with two unknown sizes
InputTypes ==
  {FloatType, IntType,
   TensorType(<<3>>, <<TRUE>>),
   TensorType(<<-1>>, <<FALSE>>),
   TensorType(<<-1, 3>>, <<FALSE, TRUE>>),
   TensorType(<<-1, -1>>, <<TRUE, TRUE>>)}

AllInputs(n) == [i \in 1..n |-> i - 1]

\* the first output reads every input (at most two), a further one the first
OutputLists(n) ==
  {[j \in 1..m |-> IF j = 1 THEN Node(AllInputs(IF n > 2 THEN 2 ELSE n))
                   ELSE Node(<<0>>)] : m \in OutputCounts}

Graphs ==
  UNION {{[inputs |-> ins, outputs |-> outs] :
            ins \in [1..n -> InputTypes], outs \in OutputLists(n)} : n \in InputCounts}

EmptyGraph == [inputs |-> <<>>, outputs |-> <<>>]

\* the strides a tensor of these sizes may have: an axis flagged contiguous
\* has the stride of a dense layout over the axes after it
RECURSIVE StridesFrom(_, _, _)
StridesFrom(sizes, contiguity, k) ==
  IF k > Len(sizes) THEN {<<>>}
  ELSE UNION {LET dense == IF rest = <<>> THEN 1 ELSE rest[1] * sizes[k + 1]
              IN {<<st>> \o rest :
                    st \in IF contiguity[k] THEN {dense} ELSE {dense, 2 * dense}} :
              rest \in StridesFrom(sizes, contiguity, k + 1)}

\* the operands a caller may present for an input of the declared type
\* (data addresses are given when they are pushed)
Operands(type) ==
  IF type.kind = "FloatType" THEN {DoubleValue(3)}
  ELSE IF type.kind = "IntType" THEN {IntValue(7)}
  ELSE UNION {{Tensor(d, sizes, strides, 0) :
                 d \in Devices, strides \in StridesFrom(sizes, type.contiguity, 1)} :
              sizes \in Tuples([i \in 1..Rank(type) |->
                                  IF type.sizes[i] < 0 THEN DynSizes
                                  ELSE {type.sizes[i]}])}

\* the operands the callers of run() present: a tensor for a type with an
\* axis not flagged contiguous is not dense
Presented(type) ==
  {v \in Operands(type) :
     (isTensor(v) /\ \E i \in 1..Rank(type) : ~type.contiguity[i])
       => v.strides # ContiguousStrides(v.sizes)}

WithPtrs(args, used) ==
  LET ptrs == FreshPtrs(used, Len(args), 1)
  IN [i \in 1..Len(args) |->
        IF isTensor(args[i]) THEN [args[i] EXCEPT !.ptr = ptrs[i]] ELSE args[i]]

\* an operand has the kind and rank of the declared type
Conforms(v, type) ==
  IF type.kind = "FloatType" THEN v.kind = "Double"
  ELSE IF type.kind = "IntType" THEN v.kind = "Int"
  ELSE isTensor(v) /\ Len(v.sizes) = Rank(type) /\ Len(v.strides) = Rank(type)

NoCall ==
  [result |-> "none", lowered |-> FALSE, created |-> FALSE, invoked |-> FALSE,
   inputs |-> <<>>, run_args |-> <<>>, outputs |-> <<>>, before |-> <<>>]

\* the errors PickAndCheckBackendType throws about the device of a call
DeviceErrors == {"No tensor inputs", "Invalid device type", "Inconsistent backend_type"}

NoHist == [lowerings |-> 0, created |-> 0, invoked |-> FALSE, firstOk |-> "none",
           firstSize |-> 0, failed |-> FALSE, alive |-> TRUE]

Sat(n) == IF n >= 2 THEN 2 ELSE n + 1

----------------------------------------------------------------------------
(* The state after construction, and the operations.                       *)

Constructed(g) ==
  /\ graph = g
  /\ n_inputs_ = Len(g.inputs)
  /\ kernelArgs_ = KernelArgsOf(g)
  /\ tensors_ = TensorsOf(g)
  /\ tensor_outputs_ = TensorOutputsOf(g)
  /\ backend_type_ = kUninitialized
  /\ device_ = kCPU
  /\ codegen_ = NullCodeGen
  /\ last = NoCall
  /\ hist = NoHist

DefaultKnobs ==
  /\ te_cuda_pointwise_loop_levels = -1
  /\ te_cuda_pointwise_block_count = -1
  /\ te_cuda_pointwise_block_size = -1

Init ==
  /\ DefaultKnobs
  /\ enable_llvm \in BOOLEAN
  /\ \E g \in Graphs : Constructed(g)
  /\ stack = [i \in 1..BaseDepth |-> NoneValue]
  /\ call = <<>>
  /\ ret = <<>>

\* GetTECudaPointwiseLoopLevels() = v (the knob is read by LowerToBackend
\* alone, so it is written before LowerToBackend has run)
SetLoopLevels(v) ==
  /\ hist.alive /\ backend_type_ = kUninitialized
  /\ te_cuda_pointwise_loop_levels' = v
  /\ UNCHANGED <<te_cuda_pointwise_block_count, te_cuda_pointwise_block_size,
                 enable_llvm, kernelVars, lockVars, runVars, fnVars>>

\* the caller pushes the operands of a call
PushInputs(args) ==
  /\ hist.alive
  /\ Len(stack) = BaseDepth
  /\ Len(stack) + Len(args) <= MaxStack
  /\ stack' = stack \o WithPtrs(args, UsedPtrs(stack))
  /\ last' = NoCall
  /\ UNCHANGED <<knobVars, enable_llvm, kernelVars, lockVars, hist, fnVars>>

\* the caller pops what a call left
Unwind ==
  /\ hist.alive
  /\ Len(stack) > BaseDepth
  /\ stack' = SubSeq(stack, 1, BaseDepth)
  /\ last' = NoCall
  /\ UNCHANGED <<knobVars, enable_llvm, kernelVars, lockVars, hist, fnVars>>

\* TensorExprKernel::run.  A call through a null codegen_ is undefined: it
\* faults, or it returns.
run(faults) ==
  /\ hist.alive
  /\ Len(stack) >= n_inputs_
  /\ Len(stack) - n_inputs_ + Len(tensor_outputs_) <= MaxStack
  /\ \A i \in 1..n_inputs_ : Conforms(LastN(stack, n_inputs_)[i], graph.inputs[i])
  /\ LET inputs == LastN(stack, n_inputs_)
         pick == PickAndCheckBackendType(inputs)
         varToSize == VarToSize(kernelArgs_, inputs)
         resolved == \A j \in 1..Len(tensor_outputs_) :
                       \A d \in 1..Len(tensor_outputs_[j].dims) :
                         Resolves(tensor_outputs_[j].dims[d], varToSize)
         outputs == Outputs(tensor_outputs_, varToSize, pick.device_, UsedPtrs(stack))
         run_args == RunArgs(kernelArgs_, inputs, outputs)
         null == pick.codegen_ = NullCodeGen
         error == IF pick.error # "" THEN pick.error
                  ELSE IF ~resolved THEN "TORCH_CHECK"
                  ELSE IF null /\ faults THEN "SIGSEGV"
                  ELSE ""
         called == pick.error = "" /\ resolved /\ ~null
     IN /\ backend_type_' = pick.backend_type_
        /\ device_' = pick.device_
        /\ codegen_' = pick.codegen_
        /\ stack' = IF error = "" THEN UpdateStack(stack, n_inputs_, outputs) ELSE stack
        /\ last' = [result |-> IF error = "" THEN "ok" ELSE error,
                    lowered |-> pick.lowered, created |-> pick.created,
                    invoked |-> called, inputs |-> inputs,
                    run_args |-> IF called THEN run_args ELSE <<>>,
                    outputs |-> IF error = "" THEN outputs ELSE <<>>,
                    before |-> stack]
        /\ hist' = [lowerings |-> IF pick.lowered THEN Sat(hist.lowerings)
                                  ELSE hist.lowerings,
                    created |-> IF pick.created THEN Sat(hist.created) ELSE hist.created,
                    invoked |-> hist.invoked \/ called,
                    firstOk |-> IF error = "" /\ hist.firstOk = "none"
                                THEN FirstTensor(inputs).device ELSE hist.firstOk,
                    firstSize |-> IF error = "" /\ hist.firstOk = "none"
                                  THEN FirstTensor(inputs).sizes[1]
                                  ELSE hist.firstSize,
                    failed |-> hist.failed \/ error \in DeviceErrors,
                    alive |-> error # "SIGSEGV"]
  /\ UNCHANGED <<knobVars, enable_llvm, kernelVars, fnVars>>

Next ==
  \/ \E v \in LoopLevelVals : SetLoopLevels(v)
  \/ /\ Len(stack) = BaseDepth
     /\ \E args \in Tuples([i \in 1..n_inputs_ |-> Presented(graph.inputs[i])]) :
          PushInputs(args)
  \/ Unwind
  \/ \E faults \in BOOLEAN : run(faults)

Spec == Init /\ [][Next]_vars

----------------------------------------------------------------------------
(* Properties of run (specification Spec).  `last` holds the latest call   *)
(* until the caller touches the stack again, `hist` the calls so far.      *)

Locked == {kCPU, kCUDA}

\* C1: once the first successful run() had its first tensor argument on a
\* CPU device, a run() whose first tensor argument is on a GPU device (and
\* GPU then CPU) fails with the inconsistent-backend error, and that call
\* neither re-runs LowerToBackend, nor creates a code generator, nor invokes
\* the compiled kernel.
C1_LockIn ==
  \A d \in Locked :
    (/\ last.result # "none"
     /\ hist.firstOk = d
     /\ HasTensor(last.inputs)
     /\ FirstTensor(last.inputs).device \in Locked \ {d})
    => /\ last.result = "Inconsistent backend_type"
       /\ ~last.lowered
       /\ ~last.created
       /\ ~last.invoked
       /\ stack = last.before

C1_Witness ==
  /\ last.result = "Inconsistent backend_type"
  /\ hist.firstOk = kCPU
  /\ hist.invoked
  /\ FirstTensor(last.inputs).device = kCUDA

\* the top m entries of the stack
Top(m) == LastN(stack, m)

\* C2: a successful run() on a stack of depth D >= N leaves depth D - N + M,
\* the bottom D - N entries unchanged, and on top the M output tensors, each
\* newly allocated, in the order the subgraph declares its outputs.
C2_StackEffect ==
  last.result = "ok" =>
    LET D == Len(last.before)
        N == Len(graph.inputs)
        M == Len(graph.outputs)
        varToSize == VarToSize(kernelArgs_, last.inputs)
    IN /\ D >= N
       /\ Len(stack) = D - N + M
       /\ \A k \in 1..(D - N) : stack[k] = last.before[k]
       /\ \A j \in 1..M :
            /\ isTensor(Top(M)[j])
            /\ Top(M)[j] = last.outputs[j]
            /\ Top(M)[j].ptr \notin UsedPtrs(last.before)
            /\ Top(M)[j].device = device_
            /\ Len(Top(M)[j].sizes) = Len(ComputeShape(BoundInputs(graph), graph.outputs[j]))
            /\ \A i \in 1..M : i # j => Top(M)[i].ptr # Top(M)[j].ptr

C2_Witness ==
  /\ last.result = "ok"
  /\ last.invoked
  /\ Len(last.before) > n_inputs_
  /\ n_inputs_ = 2
  /\ Len(tensor_outputs_) = 2
  /\ Len(Top(2)[1].sizes) # Len(Top(2)[2].sizes)

\* C3: a kernel with an input whose axis 0 has an unknown size is compiled
\* once, by the first call, however the size at that axis varies from call
\* to call; and in each call an output dimension that is that size variable
\* has the size of that call's input at axis 0.
C3_DynamicShape ==
  /\ hist.created <= 1
  /\ last.result # "none" /\ hist.invoked /\ ~last.created => codegen_.id = 1
  /\ last.result = "ok" =>
       \A i \in 1..n_inputs_ :
         (graph.inputs[i].kind = "TensorType" /\ graph.inputs[i].sizes[1] < 0) =>
           \A j \in 1..Len(tensor_outputs_) :
             \A d \in 1..Len(tensor_outputs_[j].dims) :
               tensor_outputs_[j].dims[d] = SizeVar(i - 1, 0) =>
                 Top(Len(tensor_outputs_))[j].sizes[d] = last.inputs[i].sizes[1]

C3_Witness ==
  /\ last.result = "ok"
  /\ last.invoked
  /\ ~last.created
  /\ graph.inputs[1].kind = "TensorType"
  /\ graph.inputs[1].sizes[1] < 0
  /\ tensor_outputs_[1].dims[1] = SizeVar(0, 0)
  /\ hist.firstSize = 4
  /\ last.inputs[1].sizes[1] = 9
  /\ Top(Len(tensor_outputs_))[1].sizes[1] = 9

\* C4: once a run() has set the backend, no later step (a run() that
\* succeeds or fails included) changes the backend, the bound device, the
\* kernel-argument list or the code generator.
C4_Terminal ==
  [][backend_type_ # kUninitialized =>
       /\ backend_type_' = backend_type_
       /\ device_' = device_
       /\ kernelArgs_' = kernelArgs_
       /\ codegen_' = codegen_]_vars

C4_Witness ==
  /\ backend_type_ # kUninitialized
  /\ hist.lowerings = 1
  /\ last.result \in {"ok", "Inconsistent backend_type", "Invalid device type"}
  /\ ~last.lowered

\* C5: after the backend is locked and its kernel compiled, a call with any
\* tensor argument (not only the first) on a device that maps to another
\* backend fails, and the compiled kernel is not invoked.
C5_AnyTensor ==
  (/\ last.result # "none"
   /\ ~last.lowered
   /\ backend_type_ # kUninitialized
   /\ codegen_ # NullCodeGen
   /\ \E i \in 1..Len(last.inputs) :
        /\ isTensor(last.inputs[i])
        /\ BackendOf(last.inputs[i].device, enable_llvm) # backend_type_)
  => /\ last.result # "ok"
     /\ ~last.invoked

\* the number of formal parameters one kernel argument stands for, and of
\* those before kernel argument i
ArgWidth(arg) == 1 + Len(arg.sizes) + Len(arg.strides)

RECURSIVE ArgOffset(_)
ArgOffset(i) == IF i <= 1 THEN 0 ELSE ArgOffset(i - 1) + ArgWidth(kernelArgs_[i - 1])

\* C6: the formal parameters are, per bound input in binding order, its
\* buffer (or scalar variable), its size variables, its stride variables, and
\* then the output buffers in output order; the call arguments of a run() are
\* as many, and position k holds the value of formal parameter k: the data
\* address, the tensor's size at the registered axis, its stride at the
\* registered axis.
C6_Correspondence ==
  last.invoked =>
    LET P == codegen_.params
        A == last.run_args
        N == n_inputs_
        M == Len(tensor_outputs_)
    IN /\ Len(A) = Len(P)
       /\ Len(P) = ArgOffset(N + 1) + M
       /\ \A i \in 1..N :
            LET off == ArgOffset(i)
                arg == kernelArgs_[i]
                v == last.inputs[i]
                ns == Len(arg.sizes)
            IN /\ P[off + 1].name = arg.buffer
               /\ A[off + 1] =
                    (IF isTensor(v) THEN [kind |-> "ptr", v |-> v.ptr]
                     ELSE IF v.kind = "Int" THEN [kind |-> "int", v |-> v.v]
                     ELSE [kind |-> "float", v |-> v.v])
               /\ \A k \in 1..ns :
                    /\ P[off + 1 + k].name = arg.sizes[k].var.name
                    /\ A[off + 1 + k] =
                         [kind |-> "int", v |-> v.sizes[arg.sizes[k].idx + 1]]
               /\ \A k \in 1..Len(arg.strides) :
                    /\ P[off + 1 + ns + k].name = arg.strides[k].var.name
                    /\ A[off + 1 + ns + k] =
                         [kind |-> "int", v |-> v.strides[arg.strides[k].idx + 1]]
       /\ \A j \in 1..M :
            /\ P[ArgOffset(N + 1) + j].name \in
                 {tensor_outputs_[j].name, tensor_outputs_[j].name \o "_flat"}
            /\ A[ArgOffset(N + 1) + j] = [kind |-> "ptr", v |-> Top(M)[j].ptr]

C6_Witness ==
  /\ last.invoked
  /\ n_inputs_ = 2
  /\ \E i \in 1..2 : Len(kernelArgs_[i].sizes) > 0 /\ Len(kernelArgs_[i].strides) > 0
  /\ \E i \in 1..2 : ~isTensor(last.inputs[i])

\* C13: a run() that fails with a device error leaves the stack, the
\* backend state, the bound device and the code generator as they were; and
\* once the kernel has run, a call on the locked device succeeds with the
\* one code generator, device errors in between or not.
C13_DeviceError ==
  /\ [][last'.result \in DeviceErrors =>
          /\ stack' = stack
          /\ backend_type_' = backend_type_
          /\ device_' = device_
          /\ codegen_' = codegen_
          /\ ~last'.lowered /\ ~last'.created /\ ~last'.invoked]_vars
  /\ []((/\ hist.invoked
         /\ last.result # "none"
         /\ HasTensor(last.inputs)
         /\ FirstTensor(last.inputs).device = device_)
        => /\ last.result = "ok"
           /\ last.invoked
           /\ codegen_.id = 1
           /\ codegen_.name = CodeGenName(backend_type_))

\* a call on the locked device has succeeded after a call was refused
C13_Witness ==
  /\ hist.failed
  /\ last.result = "ok"
  /\ last.invoked
  /\ ~last.created
  /\ FirstTensor(last.inputs).device = device_
  /\ codegen_.id = 1

\* C15: the call that moves the backend out of uninitialized is the call
\* that runs LowerToBackend and creates the code generator; no later step
\* lowers or creates again; and once the compiled kernel has been invoked
\* there has been exactly one lowering and one code generator.
C15_LowerOnce ==
  /\ [][(backend_type_ = kUninitialized /\ backend_type_' # kUninitialized)
          => last'.lowered /\ last'.created]_vars
  /\ [][backend_type_ # kUninitialized
          => hist'.lowerings = hist.lowerings /\ hist'.created = hist.created]_vars
  /\ [](hist.invoked => hist.lowerings = 1 /\ hist.created = 1)

\* C19: a kernel whose backend is set has a code generator.
C19_SelectedCompiled ==
  backend_type_ # kUninitialized => codegen_ # NullCodeGen

----------------------------------------------------------------------------
(* broadcastShapes on its own: every pair of shapes up to a rank.          *)

MaxShapeRank == 2

Idle ==
  /\ DefaultKnobs
  /\ enable_llvm = FALSE
  /\ Constructed(EmptyGraph)
  /\ stack = <<>>

NotDone == [done |-> FALSE]
Done(v) == [done |-> TRUE, v |-> v]

ShapeDims == {IntImm(1), IntImm(3), IntImm(5), SizeVar(0, 0)}
Shapes == UNION {[1..r -> ShapeDims] : r \in 0..MaxShapeRank}

InitBroadcast ==
  /\ Idle
  /\ \E a \in Shapes, b \in Shapes : call = [f |-> "broadcastShapes", a |-> a, b |-> b]
  /\ ret = NotDone

Broadcast ==
  /\ ~ret.done
  /\ call.f = "broadcastShapes"
  /\ ret' = Done(broadcastShapes(call.a, call.b))
  /\ UNCHANGED <<knobVars, enable_llvm, kernelVars, lockVars, runVars, call>>

\* the caller takes the result and asks for the broadcast the other way round
BroadcastSwapped ==
  /\ ret.done
  /\ call.f = "broadcastShapes"
  /\ call.a # call.b
  /\ call' = [call EXCEPT !.a = call.b, !.b = call.a]
  /\ ret' = NotDone
  /\ UNCHANGED <<knobVars, enable_llvm, kernelVars, lockVars, runVars>>

NextBroadcast == Broadcast \/ BroadcastSwapped

SpecBroadcast == InitBroadcast /\ [][NextBroadcast]_vars

\* the dimension of shape s that is k-th from the end
FromEnd(s, k) == s[Len(s) + 1 - k]

\* C7: the broadcast of A and B has rank max(rank(A), rank(B)); counted from
\* the trailing dimension, a position both shapes have takes B's dimension
\* when A's is the constant 1 and A's otherwise, and a position only one
\* shape has takes that shape's dimension.
C7_Broadcast ==
  (ret.done /\ call.f = "broadcastShapes") =>
    /\ Len(ret.v) = Max2(Len(call.a), Len(call.b))
    /\ \A k \in 1..Len(ret.v) :
         FromEnd(ret.v, k) =
           IF k <= Len(call.a) /\ k <= Len(call.b)
           THEN IF FromEnd(call.a, k) = IntImm(1) THEN FromEnd(call.b, k)
                ELSE FromEnd(call.a, k)
           ELSE IF k <= Len(call.a) THEN FromEnd(call.a, k)
           ELSE FromEnd(call.b, k)

\* [5,1] and [3] have been broadcast to [5,3]
C7_Witness ==
  /\ ret.done
  /\ call.f = "broadcastShapes"
  /\ call.a = <<IntImm(5), IntImm(1)>>
  /\ call.b = <<IntImm(3)>>
  /\ ret.v = <<IntImm(5), IntImm(3)>>

----------------------------------------------------------------------------
(* bindInput and the run-time binding of one tensor input on their own:    *)
(* every declared type up to a rank, every tensor of that type.            *)

MaxRank == 2

SizeVals == {-1, -2, 3}

TensorTypes ==
  UNION {{TensorType(sizes, contiguity) :
            sizes \in [1..r -> SizeVals], contiguity \in [1..r -> BOOLEAN]} :
         r \in 0..MaxRank}

InitBind ==
  /\ Idle
  /\ \E type \in TensorTypes : call = [f |-> "bindInput", type |-> type]
  /\ ret = NotDone

\* the constructor binds the input
Bind ==
  /\ ~ret.done
  /\ call.f = "bindInput"
  /\ ret' = Done(bindInput(call.type, 0))
  /\ UNCHANGED <<knobVars, enable_llvm, kernelVars, lockVars, runVars, call>>

\* the values the compiled kernel sees for its formal parameters, given the
\* call arguments; a parameter listed twice takes the first or the last of
\* its arguments (the code generator decides)
ParamEnv(params, args, takeLast) ==
  [name \in {params[k].name : k \in 1..Len(params)} |->
     args[CHOOSE k \in 1..Len(params) :
            /\ params[k].name = name
            /\ \A m \in 1..Len(params) :
                 params[m].name = name => IF takeLast THEN m <= k ELSE m >= k].v]

\* run() assembles the call arguments of a tensor of the declared type
BindCall(tensor, takeLast) ==
  /\ ret.done
  /\ call.f = "bindInput"
  /\ call' = [f |-> "run", type |-> call.type, bound |-> ret.v, tensor |-> tensor]
  /\ ret' = Done([run_args |-> InputCallArgs(ret.v.kernelArg, tensor),
                  varToSize |-> VarToSize(<<ret.v.kernelArg>>, <<tensor>>),
                  env |-> ParamEnv(KernelArgParams(ret.v.kernelArg),
                                   InputCallArgs(ret.v.kernelArg, tensor), takeLast)])
  /\ UNCHANGED <<knobVars, enable_llvm, kernelVars, lockVars, runVars>>

NextBind ==
  \/ Bind
  \/ /\ ret.done /\ call.f = "bindInput"
     /\ \E tensor \in Operands(call.type), takeLast \in BOOLEAN :
          BindCall(tensor, takeLast)

SpecBind == InitBind /\ [][NextBind]_vars

\* the value of an index expression under a valuation of its variables
RECURSIVE Eval(_, _)
Eval(e, env) ==
  IF e.k = "IntImm" THEN e.v
  ELSE IF e.k = "Var" THEN env[e.name]
  ELSE IF e.k = "Add" THEN Eval(e.l, env) + Eval(e.r, env)
  ELSE Eval(e.l, env) * Eval(e.r, env)

RECURSIVE Product(_)
Product(s) == IF s = <<>> THEN 1 ELSE Head(s) * Product(Tail(s))

\* the row-major offset of an element: sum over k of at[k] * product of the
\* sizes of the axes after k
RECURSIVE RowMajor(_, _)
RowMajor(at, sizes) ==
  IF at = <<>> THEN 0
  ELSE Head(at) * Product(Tail(sizes)) + RowMajor(Tail(at), Tail(sizes))

AxisNames(rank) == {AxisVar(i).name : i \in 0..(rank - 1)}
AxisVals == {0, 1, 2}
SymVals == {2, 5}

\* the valuations of the axis variables and of the variables in a shape
Valuations(dims) ==
  LET names == AxisNames(Len(dims))
                 \cup {dims[i].name : i \in {j \in 1..Len(dims) : dims[j].k = "Var"}}
  IN {env \in [names -> AxisVals \cup SymVals] :
        \A nm \in names : IF nm \in AxisNames(Len(dims)) THEN env[nm] \in AxisVals
                          ELSE env[nm] \in SymVals}

AllContiguous(type) == \A i \in 1..Rank(type) : type.contiguity[i]

Bound == call.f = "bindInput" /\ ret.done

\* C8: for a tensor input whose axes are all flagged contiguous, the index
\* expression is the row-major sum over the axes k of axis_var[k] * product
\* of the sizes of the axes after k, whatever the values of the axis
\* variables and of the size variables in the tensor's shape, and no stride
\* variable is registered.
C8_ContiguousIndex ==
  (Bound /\ AllContiguous(call.type)) =>
    /\ ret.v.kernelArg.strides = <<>>
    /\ \A env \in Valuations(ret.v.dims) :
         Eval(ret.v.body, env) =
           RowMajor([k \in 1..Len(ret.v.dims) |-> env[AxisVar(k - 1).name]],
                    [k \in 1..Len(ret.v.dims) |-> Eval(ret.v.dims[k], env)])

\* the variables a kernel argument registers
ArgNames(arg) ==
  {arg.sizes[k].var.name : k \in 1..Len(arg.sizes)}
    \cup {arg.strides[k].var.name : k \in 1..Len(arg.strides)}

\* the valuation that sets one axis variable to 1, the others to 0, and every
\* registered variable to a value of its own
UnitEnv(rank, arg, axis) ==
  [nm \in AxisNames(rank) \cup ArgNames(arg) |->
     IF nm \in AxisNames(rank) THEN (IF nm = AxisVar(axis).name THEN 1 ELSE 0)
     ELSE IF \E k \in 1..Len(arg.strides) : arg.strides[k].var.name = nm
     THEN 7 + (CHOOSE k \in 1..Len(arg.strides) : arg.strides[k].var.name = nm)
     ELSE 2 + (CHOOSE k \in 1..Len(arg.sizes) : arg.sizes[k].var.name = nm)]

\* C9: a stride parameter is registered for axis k exactly when the declared
\* contiguity flag of axis k is false, and it is the multiplier of axis k's
\* index variable; at run time it takes the actual tensor's stride at axis k;
\* a size parameter is registered for axis k only if the static size of axis
\* k is negative.
C9_StrideParams ==
  /\ Bound =>
       LET arg == ret.v.kernelArg
           rank == Rank(call.type)
       IN /\ \A k \in 0..(rank - 1) :
               (\E m \in 1..Len(arg.strides) : arg.strides[m].idx = k)
                 <=> ~call.type.contiguity[k + 1]
          /\ \A m \in 1..Len(arg.strides) :
               Eval(ret.v.body, UnitEnv(rank, arg, arg.strides[m].idx))
                 = UnitEnv(rank, arg, arg.strides[m].idx)[arg.strides[m].var.name]
          /\ \A m \in 1..Len(arg.sizes) : call.type.sizes[arg.sizes[m].idx + 1] < 0
  /\ (call.f = "run" /\ ret.done) =>
       \A m \in 1..Len(call.bound.kernelArg.strides) :
         ret.v.env[call.bound.kernelArg.strides[m].var.name]
           = call.tensor.strides[call.bound.kernelArg.strides[m].idx + 1]


\* C20: for every axis of a bound tensor input whose static size is unknown,
\* whatever sentinels the axes carry (equal ones included), the variable in
\* the tensor's shape at that axis is the variable registered for that axis
\* in the input's kernel argument, and it is the variable the index
\* expression takes as that axis's extent; so at run time every variable of
\* the shape resolves to a size.
C20_Registration ==
  /\ Bound =>
       \A i \in 1..Rank(call.type) :
         call.type.sizes[i] < 0 =>
           /\ \E m \in 1..Len(ret.v.kernelArg.sizes) :
                ret.v.kernelArg.sizes[m] = ShapeArg(i - 1, ret.v.dims[i])
           /\ SizeVarsOf(0, call.type.sizes)[call.type.sizes[i]] = ret.v.dims[i]
  /\ (call.f = "run" /\ ret.done) =>
       \A i \in 1..Len(call.bound.dims) : Resolves(call.bound.dims[i], ret.v.varToSize)

----------------------------------------------------------------------------
(* ComputeTwoOperand for aten::pow on its own: promoteInputs, the          *)
(* strength-reducing lambda, demoteOutput.                                 *)

\* an element read from a symbolic tensor
Load(buf, dtype) == [k |-> "Load", buf |-> buf, dtype |-> dtype]

\* ExprHandle::dtype()
RECURSIVE Dtype(_)
Dtype(e) ==
  IF e.k = "IntImm" THEN kInt32
  ELSE IF e.k = "FloatImm" THEN kFloat32
  ELSE IF e.k \in {"Var", "Load", "Cast"} THEN e.dtype
  ELSE IF e.k = "Intrinsics" THEN Dtype(e.args[1])
  ELSE IF Dtype(e.l) = kFloat32 \/ Dtype(e.r) = kFloat32 THEN kFloat32
  ELSE kInt32

\* a slip: every int operand is cast, whether or not a float one is there
promoteInputsAlways(inputs) ==
  [i \in 1..Len(inputs) |->
     IF Dtype(inputs[i]) = kInt32 THEN Cast(kFloat32, inputs[i]) ELSE inputs[i]]

\* promoteInputs
promoteInputs(inputs) ==
  IF \E i \in 1..Len(inputs) : Dtype(inputs[i]) = kFloat32
  THEN [i \in 1..Len(inputs) |->
          IF Dtype(inputs[i]) = kInt32 THEN Cast(kFloat32, inputs[i]) ELSE inputs[i]]
  ELSE inputs

\* demoteOutput
demoteOutput(e, scalarType) ==
  IF Dtype(e) = kFloat32 /\ scalarType = kInt32 THEN Cast(kInt32, e) ELSE e

NoMatch == [k |-> "NoMatch"]

\* lines 523-543: the chain over a float immediate (imm in tenths)
PowFloatImm(lhs, imm) ==
  IF imm = 10 THEN lhs
  ELSE IF imm = 20 THEN Mul(lhs, lhs)
  ELSE IF imm = 30 THEN Mul(Mul(lhs, lhs), lhs)
  ELSE IF imm = 40 THEN Mul(Mul(lhs, lhs), Mul(lhs, lhs))
  ELSE IF imm = 5 THEN Intrinsic("sqrt", <<lhs>>)
  ELSE IF imm = 0 THEN FloatImm(10)
  ELSE IF imm = -5 THEN Intrinsic("rsqrt", <<lhs>>)
  ELSE IF imm = -10 THEN Div(FloatImm(10), lhs)
  ELSE IF imm = -20 THEN Div(FloatImm(10), Mul(lhs, lhs))
  ELSE NoMatch

\* a plausible slip: the cube is lowered like the square
PowCastImmNoCube(lhs, imm) ==
  IF imm = 1 THEN lhs
  ELSE IF imm \in {2, 3} THEN Mul(lhs, lhs)
  ELSE IF imm = 4 THEN Mul(Mul(lhs, lhs), Mul(lhs, lhs))
  ELSE IF imm = 0 THEN FloatImm(10)
  ELSE IF imm = -1 THEN Div(FloatImm(10), lhs)
  ELSE IF imm = -2 THEN Div(FloatImm(10), Mul(lhs, lhs))
  ELSE NoMatch

\* lines 550-566: the chain over an int immediate under a cast
PowCastImm(lhs, imm) ==
  IF imm = 1 THEN lhs
  ELSE IF imm = 2 THEN Mul(lhs, lhs)
  ELSE IF imm = 3 THEN Mul(Mul(lhs, lhs), lhs)
  ELSE IF imm = 4 THEN Mul(Mul(lhs, lhs), Mul(lhs, lhs))
  ELSE IF imm = 0 THEN FloatImm(10)
  ELSE IF imm = -1 THEN Div(FloatImm(10), lhs)
  ELSE IF imm = -2 THEN Div(FloatImm(10), Mul(lhs, lhs))
  ELSE NoMatch

\* lines 520-570: the lambda of aten::pow.  The float immediate is tried
\* first, then the cast of an int immediate, then pow(lhs, rhs).
PowLambda(lhs, rhs) ==
  IF rhs.k = "FloatImm" /\ PowFloatImm(lhs, rhs.v) # NoMatch
  THEN PowFloatImm(lhs, rhs.v)
  ELSE IF rhs.k = "Cast" /\ rhs.src.k = "IntImm" /\ PowCastImm(lhs, rhs.src.v) # NoMatch
  THEN PowCastImm(lhs, rhs.src.v)
  ELSE Intrinsic("pow", <<lhs, rhs>>)

\* ComputeTwoOperand, lines 209-218, with the lambda of aten::pow
ComputePow(operands, scalarType) ==
  LET inputs == promoteInputs(operands)
      compute == PowLambda(inputs[1], inputs[2])
  IN [inputs |-> inputs, compute |-> compute,
      out |-> demoteOutput(compute, scalarType)]

FloatExponents == {10, 20, 30, 40, 5, 0, -5, -10, -20, 27, 50, -30, 15, -15}
IntExponents == -3..5

\* what tensorOrConstant gives for an operand: an immediate, a scalar input
\* or an element of a tensor
Bases == {Load("t0", kFloat32), Load("t0", kInt32),
          VarHandle("v0", kFloat32), VarHandle("v0", kInt32)}
Exponents ==
  {FloatImm(t) : t \in FloatExponents} \cup {IntImm(i) : i \in IntExponents}
    \cup {Load("t1", kFloat32), Load("t1", kInt32),
          VarHandle("v1", kFloat32), VarHandle("v1", kInt32)}

InitPow ==
  /\ Idle
  /\ \E x \in Bases, e \in Exponents, t \in {kFloat32, kInt32} :
       call = [f |-> "aten::pow", operands |-> <<x, e>>, scalarType |-> t]
  /\ ret = NotDone

LowerPow ==
  /\ ~ret.done
  /\ call.f = "aten::pow"
  /\ ret' = Done(ComputePow(call.operands, call.scalarType))
  /\ UNCHANGED <<knobVars, enable_llvm, kernelVars, lockVars, runVars, call>>

\* the node's output is declared with the other scalar type and lowered again
Redeclare ==
  /\ ret.done
  /\ call.f = "aten::pow"
  /\ call.scalarType = kFloat32
  /\ call' = [call EXCEPT !.scalarType = kInt32]
  /\ ret' = NotDone
  /\ UNCHANGED <<knobVars, enable_llvm, kernelVars, lockVars, runVars>>

NextPow == LowerPow \/ Redeclare

SpecPow == InitPow /\ [][NextPow]_vars

RECURSIVE HasPow(_)
HasPow(e) ==
  IF e.k \in {"IntImm", "FloatImm", "Var", "Load"} THEN FALSE
  ELSE IF e.k = "Cast" THEN HasPow(e.src)
  ELSE IF e.k = "Intrinsics"
  THEN e.op = "pow" \/ \E i \in 1..Len(e.args) : HasPow(e.args[i])
  ELSE HasPow(e.l) \/ HasPow(e.r)

\* the reduced forms, x the first operand as the lambda receives it
C10_Form(x, tenths) ==
  CASE tenths = 10 -> x
    [] tenths = 20 -> Mul(x, x)
    [] tenths = 30 -> Mul(Mul(x, x), x)
    [] tenths = 40 -> Mul(Mul(x, x), Mul(x, x))
    [] tenths = 5 -> Intrinsic("sqrt", <<x>>)
    [] tenths = -5 -> Intrinsic("rsqrt", <<x>>)
    [] tenths = 0 -> FloatImm(10)
    [] tenths = -10 -> Div(FloatImm(10), x)
    [] tenths = -20 -> Div(FloatImm(10), Mul(x, x))

\* C10: with x and e the operands the lambda of aten::pow receives, a float
\* literal e in {1, 2, 3, 4, 0.5, -0.5, 0, -1, -2} gives the listed form, an
\* integer literal in {1, 2, 3, 4, 0, -1, -2} cast to float gives the same
\* form, neither form holds the power intrinsic, and every other e gives
\* the power intrinsic pow(x, e).
C10_PowReduction ==
  (ret.done /\ call.f = "aten::pow") =>
    LET x == ret.v.inputs[1]
        e == ret.v.inputs[2]
    IN IF e.k = "FloatImm" /\ e.v \in {10, 20, 30, 40, 5, -5, 0, -10, -20}
       THEN ret.v.compute = C10_Form(x, e.v) /\ ~HasPow(ret.v.compute)
       ELSE IF e.k = "Cast" /\ e.dtype = kFloat32 /\ e.src.k = "IntImm"
               /\ e.src.v \in {1, 2, 3, 4, 0, -1, -2}
       THEN ret.v.compute = C10_Form(x, 10 * e.src.v) /\ ~HasPow(ret.v.compute)
       ELSE ret.v.compute = Intrinsic("pow", <<x, e>>)

\* pow(x, 3) with a float x and the integer literal 3, which promoteInputs
\* casts to float, has been lowered to (x*x)*x
C10_Witness ==
  /\ ret.done
  /\ call.f = "aten::pow"
  /\ call.operands = <<Load("t0", kFloat32), IntImm(3)>>
  /\ ret.v.inputs[2] = Cast(kFloat32, IntImm(3))
  /\ ret.v.compute = Mul(Mul(Load("t0", kFloat32), Load("t0", kFloat32)),
                         Load("t0", kFloat32))

----------------------------------------------------------------------------
(* ComputeThreeOperand for aten::clamp on its own.  A value of the graph   *)
(* is a constant (None, a double in tenths, an int), a scalar input or a   *)
(* tensor.                                                                 *)

Min(l, r) == [k |-> "Min", l |-> l, r |-> r]
Max(l, r) == [k |-> "Max", l |-> l, r |-> r]

ConstNone == [kind |-> "Constant", val |-> "None"]
ConstDouble(t) == [kind |-> "Constant", val |-> "Double", v |-> t]
ConstInt(v) == [kind |-> "Constant", val |-> "Int", v |-> v]
ScalarValue(name, dtype) == [kind |-> "Scalar", name |-> name, dtype |-> dtype]
TensorValue(buf, dtype) == [kind |-> "Tensor", buf |-> buf, dtype |-> dtype]

\* lines 91-95: the expression that stands for a None constant
NonePlaceholderFloat == FloatImm(0)

NonePlaceholder == IntImm(0)

\* TensorExprKernel::constant
constant(v) ==
  IF v.kind = "Constant"
  THEN IF v.val = "Double" THEN FloatImm(v.v)
       ELSE IF v.val = "Int" THEN IntImm(v.v)
       ELSE NonePlaceholder
  ELSE VarHandle(v.name, v.dtype)

\* tensorOrConstant: an element of the tensor bound to v, or constant(v)
tensorOrConstant(v) == IF v.kind = "Tensor" THEN Load(v.buf, v.dtype) ELSE constant(v)

\* lines 402-416: no_min, no_max
IsNoneConstant(v) == v.kind = "Constant" /\ v.val = "None"

\* lines 420-428: the lambda of aten::clamp
ClampLambda(in, min, max, no_min, no_max) ==
  IF no_min /\ no_max THEN in
  ELSE IF no_min THEN Min(in, max)
  ELSE IF no_max THEN Max(in, min)
  ELSE Max(Min(in, max), min)

\* ComputeThreeOperand, lines 258-268, with the lambda of aten::clamp
ComputeClamp(x, min, max, scalarType) ==
  LET inputs == promoteInputs(<<tensorOrConstant(x), tensorOrConstant(min),
                                tensorOrConstant(max)>>)
      compute == ClampLambda(inputs[1], inputs[2], inputs[3],
                             IsNoneConstant(min), IsNoneConstant(max))
  IN [inputs |-> inputs, compute |-> compute,
      out |-> demoteOutput(compute, scalarType)]

ClampInputs == {TensorValue("t0", kFloat32), TensorValue("t0", kInt32)}
ClampBounds ==
  {ConstNone, ConstDouble(15), ConstDouble(-15), ConstInt(2), ConstInt(-1),
   ScalarValue("v1", kFloat32), ScalarValue("v2", kInt32)}

InitClamp ==
  /\ Idle
  /\ \E x \in ClampInputs, lo \in ClampBounds, hi \in ClampBounds,
        t \in {kFloat32, kInt32} :
       call = [f |-> "aten::clamp", x |-> x, min |-> lo, max |-> hi, scalarType |-> t]
  /\ ret = NotDone

LowerClamp ==
  /\ ~ret.done
  /\ call.f = "aten::clamp"
  /\ ret' = Done(ComputeClamp(call.x, call.min, call.max, call.scalarType))
  /\ UNCHANGED <<knobVars, enable_llvm, kernelVars, lockVars, runVars, call>>

\* the graph is rewritten with one bound replaced by None and lowered again
DropBound(which) ==
  /\ ret.done
  /\ call.f = "aten::clamp"
  /\ call[which] # ConstNone
  /\ call' = [call EXCEPT ![which] = ConstNone]
  /\ ret' = NotDone
  /\ UNCHANGED <<knobVars, enable_llvm, kernelVars, lockVars, runVars>>

NextClamp == LowerClamp \/ \E which \in {"min", "max"} : DropBound(which)

SpecClamp == InitClamp /\ [][NextClamp]_vars

\* the value of a scalar expression, in tenths; a cast to int truncates
\* toward zero
RECURSIVE Value(_, _)
Value(e, env) ==
  IF e.k = "IntImm" THEN 10 * e.v
  ELSE IF e.k = "FloatImm" THEN e.v
  ELSE IF e.k = "Var" THEN env[e.name]
  ELSE IF e.k = "Load" THEN env[e.buf]
  ELSE IF e.k = "Cast"
  THEN LET t == Value(e.src, env)
       IN IF e.dtype = kFloat32 THEN t
          ELSE IF t >= 0 THEN (t \div 10) * 10 ELSE -(((-t) \div 10) * 10)
  ELSE IF e.k = "Min"
  THEN (IF Value(e.l, env) <= Value(e.r, env) THEN Value(e.l, env) ELSE Value(e.r, env))
  ELSE IF e.k = "Max"
  THEN (IF Value(e.l, env) >= Value(e.r, env) THEN Value(e.l, env) ELSE Value(e.r, env))
  ELSE 0

ClampEnvs == [{"t0", "v1", "v2"} -> {-20, 0, 10, 30}]

\* the operands of a clamp node that are present, promoted together
ClampPresent ==
  promoteInputs(<<tensorOrConstant(call.x)>>
                  \o (IF call.min = ConstNone THEN <<>> ELSE <<tensorOrConstant(call.min)>>)
                  \o (IF call.max = ConstNone THEN <<>> ELSE <<tensorOrConstant(call.max)>>))

\* C11: clamp(x, none, none) lowers to x; clamp(x, none, hi) to a form whose
\* value is min(x, hi); clamp(x, lo, none) to one whose value is max(x, lo);
\* clamp(x, lo, hi) to max(min(x, hi), lo); with x, lo, hi the operands that
\* are present, promoted as if the absent ones were not there: the
\* expression standing for an absent operand changes nothing.
C11_Clamp ==
  (ret.done /\ call.f = "aten::clamp") =>
    LET p == ClampPresent
        x == p[1]
        lo == p[2]
        hi == p[Len(p)]
        noMin == call.min = ConstNone
        noMax == call.max = ConstNone
        c == ret.v.compute
    IN /\ (noMin /\ noMax) => c = x
       /\ (noMin /\ ~noMax) =>
            /\ c = Min(x, hi)
            /\ \A env \in ClampEnvs :
                 Value(c, env) = IF Value(x, env) > Value(hi, env)
                                 THEN Value(hi, env) ELSE Value(x, env)
       /\ (~noMin /\ noMax) =>
            /\ c = Max(x, lo)
            /\ \A env \in ClampEnvs :
                 Value(c, env) = IF Value(x, env) < Value(lo, env)
                                 THEN Value(lo, env) ELSE Value(x, env)
       /\ (~noMin /\ ~noMax) => c = Max(Min(x, hi), lo)

\* clamp(x, none, 1.5) over an int tensor has been lowered to
\* min(float(x), 1.5)
C11_Witness ==
  /\ ret.done
  /\ call.f = "aten::clamp"
  /\ call.x = TensorValue("t0", kInt32)
  /\ call.min = ConstNone
  /\ call.max = ConstDouble(15)
  /\ ret.v.compute = Min(Cast(kFloat32, Load("t0", kInt32)), FloatImm(15))

----------------------------------------------------------------------------
(* ComputeTwoOperand on its own, over the templates of aten::mul,          *)
(* aten::div, aten::min and aten::max, and chains of such nodes: a node's  *)
(* tensor is computed inline, so the next node reads its expression.       *)

MaxChain == 2

\* lines 324-395: the templates
Template(op, lhs, rhs) ==
  IF op = "aten::mul" THEN Mul(lhs, rhs)
  ELSE IF op = "aten::div" THEN Div(lhs, rhs)
  ELSE IF op = "aten::min" THEN Min(lhs, rhs)
  ELSE Max(lhs, rhs)

Templates == {"aten::mul", "aten::div", "aten::min", "aten::max"}

\* ComputeTwoOperand, lines 209-218
ComputeTwoOperand(op, operands, scalarType) ==
  LET inputs == promoteInputs(operands)
      compute == Template(op, inputs[1], inputs[2])
  IN [inputs |-> inputs, compute |-> compute,
      out |-> demoteOutput(compute, scalarType)]

Leaves ==
  {Load("t0", kFloat32), Load("t1", kInt32), VarHandle("v0", kFloat32),
   VarHandle("v1", kInt32), IntImm(2), FloatImm(15)}

InitTwo ==
  /\ Idle
  /\ \E op \in Templates, a \in Leaves, b \in Leaves, t \in {kFloat32, kInt32} :
       call = [f |-> "ComputeTwoOperand", op |-> op, operands |-> <<a, b>>,
               scalarType |-> t, depth |-> 1]
  /\ ret = NotDone

LowerTwo ==
  /\ ~ret.done
  /\ call.f = "ComputeTwoOperand"
  /\ ret' = Done(ComputeTwoOperand(call.op, call.operands, call.scalarType))
  /\ UNCHANGED <<knobVars, enable_llvm, kernelVars, lockVars, runVars, call>>

\* the next node of the graph takes this node's tensor as its first operand
ChainTwo(op, b, t) ==
  /\ ret.done
  /\ call.f = "ComputeTwoOperand"
  /\ call.depth < MaxChain
  /\ call' = [f |-> "ComputeTwoOperand", op |-> op, operands |-> <<ret.v.out, b>>,
              scalarType |-> t, depth |-> call.depth + 1]
  /\ ret' = NotDone
  /\ UNCHANGED <<knobVars, enable_llvm, kernelVars, lockVars, runVars>>

NextTwo ==
  \/ LowerTwo
  \/ \E op \in Templates, b \in Leaves, t \in {kFloat32, kInt32} : ChainTwo(op, b, t)

SpecTwo == InitTwo /\ [][NextTwo]_vars

\* every sub-expression is int-typed
RECURSIVE AllInt(_)
AllInt(e) ==
  /\ Dtype(e) = kInt32
  /\ IF e.k \in {"IntImm", "FloatImm", "Var", "Load"} THEN TRUE
     ELSE IF e.k = "Cast" THEN AllInt(e.src)
     ELSE IF e.k = "Intrinsics" THEN \A i \in 1..Len(e.args) : AllInt(e.args[i])
     ELSE AllInt(e.l) /\ AllInt(e.r)

Lowered == ret.done /\ call.f = "ComputeTwoOperand"

Mixed == {Dtype(call.operands[1]), Dtype(call.operands[2])} = {kInt32, kFloat32}

BothInt == Dtype(call.operands[1]) = kInt32 /\ Dtype(call.operands[2]) = kInt32

\* what holds of promoteInputs and of integer chains, whatever the output is
\* declared
PromotionRules ==
  /\ \A i, j \in 1..Len(ret.v.inputs) : Dtype(ret.v.inputs[i]) = Dtype(ret.v.inputs[j])
  /\ BothInt => Dtype(ret.v.out) = kInt32 /\ ret.v.out = ret.v.compute
  /\ (AllInt(call.operands[1]) /\ AllInt(call.operands[2])) => AllInt(ret.v.out)

----------------------------------------------------------------------------
(* Two threads call run() on one fresh kernel, each with its own stack.    *)
(* run() takes no lock; `serialized` says whether the callers hold one     *)
(* around the whole call.  A thread's steps are the reads and writes of    *)
(* PickAndCheckBackendType: it reads backend_type_ (927), writes           *)
(* backend_type_ and device_ (928-929), lowers and writes codegen_ (930,   *)
(* 900), and calls the code generator (946).                               *)

Threads == {1, 2}

OneTensorGraph ==
  [inputs |-> <<TensorType(<<3>>, <<TRUE>>)>>, outputs |-> <<Node(<<0>>)>>]

InitThreads ==
  /\ DefaultKnobs
  /\ enable_llvm \in BOOLEAN
  /\ Constructed(OneTensorGraph)
  /\ stack = <<>>
  /\ \E serialized \in BOOLEAN, devices \in [Threads -> {kCPU, kCUDA}] :
       call = [f |-> "run", serialized |-> serialized, holder |-> 0,
               device |-> devices,
               pc |-> [t \in Threads |-> "start"],
               observed |-> [t \in Threads |-> "none"]]
  /\ ret = NotDone

ThreadFrame == <<knobVars, enable_llvm, kernelVars, stack, last, ret>>

\* the caller enters run(), taking the callers' lock if there is one
Enter(t) ==
  /\ call.f = "run"
  /\ call.pc[t] = "start"
  /\ call.serialized => call.holder = 0
  /\ call' = [call EXCEPT !.pc[t] = "pick",
                          !.holder = IF call.serialized THEN t ELSE 0]
  /\ UNCHANGED <<ThreadFrame, lockVars, hist>>

\* line 927 and 931: the read of backend_type_
Observe(t) ==
  /\ call.f = "run"
  /\ call.pc[t] = "pick"
  /\ LET backend_type == BackendOf(call.device[t], enable_llvm)
     IN call' = [call EXCEPT
                   !.observed[t] = backend_type_,
                   !.pc[t] = IF IsUninitialized(backend_type_) THEN "set"
                             ELSE IF backend_type_ # backend_type THEN "throw"
                             ELSE "call"]
  /\ UNCHANGED <<ThreadFrame, lockVars, hist>>

\* lines 928-929
SetBackend(t) ==
  /\ call.f = "run"
  /\ call.pc[t] = "set"
  /\ backend_type_' = BackendOf(call.device[t], enable_llvm)
  /\ device_' = call.device[t]
  /\ call' = [call EXCEPT !.pc[t] = "lower"]
  /\ UNCHANGED <<ThreadFrame, codegen_, hist>>

\* line 930: LowerToBackend(backend_type); the code generator's name is
\* chosen by the member backend_type_ (885), as it is at that moment
Lower(t) ==
  /\ call.f = "run"
  /\ call.pc[t] = "lower"
  /\ codegen_' = [LowerToBackend(BackendOf(call.device[t], enable_llvm))
                    EXCEPT !.name = CodeGenName(backend_type_)]
  /\ hist' = [hist EXCEPT !.lowerings = Sat(hist.lowerings),
                          !.created = Sat(hist.created)]
  /\ call' = [call EXCEPT !.pc[t] = "call"]
  /\ UNCHANGED <<ThreadFrame, backend_type_, device_>>

\* the call returns (946, 1137-1141) or throws (934): the lock is released
Leave(t) ==
  /\ call.f = "run"
  /\ call.pc[t] \in {"call", "throw"}
  /\ call' = [call EXCEPT !.pc[t] = IF call.pc[t] = "call" THEN "returned" ELSE "thrown",
                          !.holder = 0]
  /\ hist' = [hist EXCEPT !.invoked = hist.invoked \/ call.pc[t] = "call"]
  /\ UNCHANGED <<ThreadFrame, lockVars>>

NextThreads ==
  \E t \in Threads : Enter(t) \/ Observe(t) \/ SetBackend(t) \/ Lower(t) \/ Leave(t)

SpecThreads == InitThreads /\ [][NextThreads]_vars

\* C14: LowerToBackend runs twice on one kernel only when the callers hold
\* no lock and both threads have read the uninitialized backend state; with
\* the calls serialized it runs once at most.  (That the unserialized case
\* does happen is the reachable state below.)
C14_FirstCallRace ==
  /\ call.serialized => hist.lowerings <= 1
  /\ call.serialized =>
       ~(\A t \in Threads : call.observed[t] = kUninitialized)
  /\ hist.lowerings = 2 =>
       /\ ~call.serialized
       /\ \A t \in Threads : call.observed[t] = kUninitialized

\* both threads saw the backend uninitialized and both lowered: the backend
\* was written twice, for two devices, and two code generators were created
C14_Witness ==
  /\ ~call.serialized
  /\ \A t \in Threads : call.observed[t] = kUninitialized /\ call.pc[t] = "returned"
  /\ call.device[1] # call.device[2]
  /\ hist.lowerings = 2
  /\ hist.created = 2
  /\ codegen_.id = 2

----------------------------------------------------------------------------
(* aten::cat (lines 701-724).  A segment is an input tensor of the         *)
(* concatenation, bound to a buffer, with its sizes; the lambda builds a   *)
(* chain of selects over reads of the segments.                            *)

MaxSegments == 3

Sub(l, r) == [k |-> "Sub", l |-> l, r |-> r]
CompareSelectLT(l, r) == [k |-> "CompareSelect", op |-> "kLT", l |-> l, r |-> r]
ifThenElse(c, t, f) == [k |-> "IfThenElse", c |-> c, t |-> t, f |-> f]

\* tensorOrConstant(v, axes): the element of the tensor bound to v at axes
tensorOrConstantAt(v, axes) == [k |-> "Call", buf |-> v.buf, args |-> axes]

\* bufferSizes: the sizes of a tensor
bufferSizes(t) == t.sizes

\* new_axes[dim] = e
SetAxis(axes, dim, e) == [a \in 1..Len(axes) |-> IF a = dim + 1 THEN e ELSE axes[a]]

\* lines 714-720: the loop over inputs[1..], on a state [load, offset, new_axes]
RECURSIVE CatLoop(_, _, _, _, _)
CatLoop(st, ii, inputs, dim, axes) ==
  IF ii >= Len(inputs) THEN st
  ELSE LET load == ifThenElse(CompareSelectLT(axes[dim + 1], IntImm(st.offset)),
                              st.load,
                              tensorOrConstantAt(inputs[ii + 1], st.new_axes))
           offset == st.offset + bufferSizes(inputs[ii + 1])[dim + 1]
       IN CatLoop([load |-> load,
                   offset |-> offset,
                   new_axes |-> SetAxis(st.new_axes, dim,
                                        Sub(st.new_axes[dim + 1], IntImm(offset)))],
                  ii + 1, inputs, dim, axes)

\* lines 704-722: the lambda of aten::cat
ComputeCat(inputs, dim, axes) ==
  LET offset == bufferSizes(inputs[1])[dim + 1]
  IN CatLoop([load |-> tensorOrConstantAt(inputs[1], axes),
              offset |-> offset,
              new_axes |-> SetAxis(axes, dim, Sub(axes[dim + 1], IntImm(offset)))],
             1, inputs, dim, axes).load

SegmentSizes == {1, 2, 3}
OtherExtent == 2

\* the segments of a concatenation along dim: they agree on the other axes
Segments(rank, dim, along) ==
  [j \in 1..Len(along) |->
     [kind |-> "Tensor", buf |-> BufferName(j - 1), dtype |-> kFloat32,
      sizes |-> [a \in 1..rank |-> IF a = dim + 1 THEN along[j] ELSE OtherExtent]]]

InitCat ==
  /\ Idle
  /\ \E rank \in 1..2, n \in 1..MaxSegments :
       \E dim \in 0..(rank - 1), along \in [1..n -> SegmentSizes] :
         call = [f |-> "cat", inputs |-> Segments(rank, dim, along), dim |-> dim,
                 rank |-> rank]
  /\ ret = NotDone

LowerCat ==
  /\ ~ret.done
  /\ call.f = "cat"
  /\ ret' = Done(ComputeCat(call.inputs, call.dim, Axes(call.rank)))
  /\ UNCHANGED <<knobVars, enable_llvm, kernelVars, lockVars, runVars, call>>

NextCat == LowerCat

SpecCat == InitCat /\ [][NextCat]_vars

\* integer division and remainder as the generated code computes them:
\* the quotient is truncated toward zero
Abs(a) == IF a < 0 THEN -a ELSE a
TruncDiv(a, b) ==
  IF (a >= 0) = (b > 0) THEN Abs(a) \div Abs(b) ELSE -(Abs(a) \div Abs(b))
TruncMod(a, b) == a - b * TruncDiv(a, b)

\* the value of an index expression
RECURSIVE IndexValue(_, _)
IndexValue(e, env) ==
  IF e.k = "IntImm" THEN e.v
  ELSE IF e.k = "Var" THEN env[e.name]
  ELSE IF e.k = "Sub" THEN IndexValue(e.l, env) - IndexValue(e.r, env)
  ELSE IF e.k = "Add" THEN IndexValue(e.l, env) + IndexValue(e.r, env)
  ELSE IF e.k = "Mul" THEN IndexValue(e.l, env) * IndexValue(e.r, env)
  ELSE IF e.k = "Div" THEN TruncDiv(IndexValue(e.l, env), IndexValue(e.r, env))
  ELSE TruncMod(IndexValue(e.l, env), IndexValue(e.r, env))

\* the element a chain of selects reads: its buffer and its index
RECURSIVE ReadOf(_, _)
ReadOf(e, env) ==
  IF e.k = "IfThenElse"
  THEN (IF IndexValue(e.c.l, env) < IndexValue(e.c.r, env)
        THEN ReadOf(e.t, env) ELSE ReadOf(e.f, env))
  ELSE [buf |-> e.buf, at |-> [a \in 1..Len(e.args) |-> IndexValue(e.args[a], env)]]

\* the sum of the sizes along dim of the segments before segment j
RECURSIVE OffsetOf(_, _, _)
OffsetOf(inputs, dim, j) ==
  IF j = 1 THEN 0 ELSE OffsetOf(inputs, dim, j - 1) + inputs[j - 1].sizes[dim + 1]

\* the output indices: every axis within the extent of the concatenation
CatIndices ==
  LET total == OffsetOf(call.inputs, call.dim, Len(call.inputs) + 1)
  IN {env \in [AxisNames(call.rank) -> 0..(MaxSegments * 3 - 1)] :
        \A a \in 1..call.rank :
          env[AxisVar(a - 1).name] < (IF a = call.dim + 1 THEN total ELSE OtherExtent)}

\* C16: for every output index, with k its component along the
\* concatenation axis, the lowered cat reads the segment j whose range
\* [offset_j, offset_j + size_j) holds k, at the same index with k - offset_j
\* along the concatenation axis; for one segment and for more.
C16_Cat ==
  (call.f = "cat" /\ ret.done) =>
    \A env \in CatIndices :
      LET k == env[AxisVar(call.dim).name]
          j == CHOOSE j \in 1..Len(call.inputs) :
                 /\ OffsetOf(call.inputs, call.dim, j) <= k
                 /\ k < OffsetOf(call.inputs, call.dim, j + 1)
      IN ReadOf(ret.v, env) =
           [buf |-> call.inputs[j].buf,
            at |-> [a \in 1..call.rank |->
                      IF a = call.dim + 1 THEN k - OffsetOf(call.inputs, call.dim, j)
                      ELSE env[AxisVar(a - 1).name]]]

----------------------------------------------------------------------------
(* The flattening of a GPU output (lines 778-806): the flat tensor has the *)
(* one dimension total_count and reads the output at the indices recovered *)
(* from the flat index.                                                    *)

MaxFlatRank == 3

Mod(l, r) == [k |-> "Mod", l |-> l, r |-> r]

\* lines 792-799: the loop from the innermost axis outward, on the indices
\* pushed so far and the running value
RECURSIVE FlatLoop(_, _, _, _)
FlatLoop(pushed, value, i, dims) ==
  IF i < 0 THEN pushed
  ELSE FlatLoop(Append(pushed, IF i > 0 THEN Mod(value, dims[i + 1]) ELSE value),
                Div(value, dims[i + 1]), i - 1, dims)

\* a slip: the indices are left in the order they were pushed
FlatIndicesUnreversed(index, dims) == FlatLoop(<<>>, index, Len(dims) - 1, dims)

\* lines 790-802: the lambda of the flat tensor
FlatIndices(index, dims) == Reverse(FlatLoop(<<>>, index, Len(dims) - 1, dims))

\* lines 780-803: the flat tensor of an output with the given dimensions
Flatten(dims) ==
  [dims |-> <<TotalCount(dims, 2, dims[1])>>,
   args |-> FlatIndices(VarHandle("index", kInt32), dims)]

FlatExtents == {1, 2, 3, 4}

InitFlat ==
  /\ Idle
  /\ \E rank \in 1..MaxFlatRank :
       \E extents \in [1..rank -> FlatExtents] :
         call = [f |-> "flatten", dims |-> [a \in 1..rank |-> IntImm(extents[a])]]
  /\ ret = NotDone

LowerFlat ==
  /\ ~ret.done
  /\ call.f = "flatten"
  /\ ret' = Done(Flatten(call.dims))
  /\ UNCHANGED <<knobVars, enable_llvm, kernelVars, lockVars, runVars, call>>

NextFlat == LowerFlat

SpecFlat == InitFlat /\ [][NextFlat]_vars

\* the indices at which the flat tensor's element f reads the output
ReadAt(f) ==
  [a \in 1..Len(ret.v.args) |-> IndexValue(ret.v.args[a], [index |-> f])]

\* C17: for an output of rank >= 1 with constant extents and every flat
\* index f below the flat tensor's extent (the product of the extents), the
\* recovered indices lie within the extents and f is their row-major
\* offset; distinct flat indices read distinct elements and every element of
\* the output is read.
C17_FlattenRoundTrip ==
  (call.f = "flatten" /\ ret.done) =>
    LET sizes == [a \in 1..Len(call.dims) |-> call.dims[a].v]
        total == IndexValue(ret.v.dims[1], <<>>)
    IN /\ total = Product(sizes)
       /\ Len(ret.v.args) = Len(sizes)
       /\ \A f \in 0..(total - 1) :
            /\ \A a \in 1..Len(sizes) : 0 <= ReadAt(f)[a] /\ ReadAt(f)[a] < sizes[a]
            /\ f = RowMajor(ReadAt(f), sizes)
       /\ \A f, g \in 0..(total - 1) : ReadAt(f) = ReadAt(g) => f = g
       /\ Cardinality({ReadAt(f) : f \in 0..(total - 1)}) = Product(sizes)

\* a rank-3 output of extents (2, 3, 4): flat index 23 reads (1, 2, 3) and
\* flat index 6 reads (0, 1, 2)
C17_Witness ==
  /\ call.f = "flatten"
  /\ ret.done
  /\ call.dims = <<IntImm(2), IntImm(3), IntImm(4)>>
  /\ ReadAt(23) = <<1, 2, 3>>
  /\ ReadAt(6) = <<0, 1, 2>>

----------------------------------------------------------------------------
(* The tiling of the GPU outputs (lines 814-864) under the three knobs.    *)
(* The knobs are process-wide and are written before LowerToBackend reads  *)
(* them.                                                                   *)

TileLoopLevels == {-1, 0, 1, 2, 3, 4}
TileBlockCounts == {-1, 0, 2}
TileBlockSizes == {-1, 0, 4}

StaticInput == TensorType(<<3>>, <<TRUE>>)
DynamicInput == TensorType(<<-1>>, <<TRUE>>)

\* one output of constant shape; one whose dimension is a size variable; one
\* of each
TileGraphs ==
  {[inputs |-> <<StaticInput>>, outputs |-> <<Node(<<0>>)>>],
   [inputs |-> <<DynamicInput>>, outputs |-> <<Node(<<0>>)>>],
   [inputs |-> <<DynamicInput, StaticInput>>, outputs |-> <<Node(<<0>>), Node(<<1>>)>>]}

InitTile ==
  /\ DefaultKnobs
  /\ enable_llvm = FALSE
  /\ \E g \in TileGraphs : Constructed(g)
  /\ stack = <<>>
  /\ call = [f |-> "LowerToBackend", backend_type |-> kCudaCodeGen]
  /\ ret = NotDone

\* GetTECudaPointwiseBlockCount() = v
SetBlockCount(v) ==
  /\ hist.alive /\ backend_type_ = kUninitialized
  /\ te_cuda_pointwise_block_count' = v
  /\ UNCHANGED <<te_cuda_pointwise_loop_levels, te_cuda_pointwise_block_size,
                 enable_llvm, kernelVars, lockVars, runVars, fnVars>>

\* GetTECudaPointwiseBlockSize() = v
SetBlockSize(v) ==
  /\ hist.alive /\ backend_type_ = kUninitialized
  /\ te_cuda_pointwise_block_size' = v
  /\ UNCHANGED <<te_cuda_pointwise_loop_levels, te_cuda_pointwise_block_count,
                 enable_llvm, kernelVars, lockVars, runVars, fnVars>>

\* LowerToBackend(kCudaCodeGen): it throws in the tiling loop, or it leaves
\* the code generator in codegen_
LowerTile ==
  /\ ~ret.done
  /\ call.f = "LowerToBackend"
  /\ IF InvalidLoopLevel(call.backend_type)
     THEN /\ ret' = Done([error |-> "Invalid loop-level"])
          /\ UNCHANGED <<codegen_, hist>>
     ELSE /\ ret' = Done([error |-> ""])
          /\ codegen_' = LowerToBackend(call.backend_type)
          /\ hist' = [hist EXCEPT !.lowerings = Sat(hist.lowerings),
                                  !.created = Sat(hist.created)]
  /\ UNCHANGED <<knobVars, enable_llvm, kernelVars, backend_type_, device_, stack,
                 last, call>>

NextTile ==
  \/ /\ ~ret.done
     /\ \/ \E v \in TileLoopLevels : SetLoopLevels(v)
        \/ \E v \in TileBlockCounts : SetBlockCount(v)
        \/ \E v \in TileBlockSizes : SetBlockSize(v)
  \/ LowerTile

SpecTile == InitTile /\ [][NextTile]_vars

\* the tiling of the GPU outputs with `levels` the number of loop levels the
\* knob stands for: another number than 2 and 3 is an error when an output
\* is tiled; an output with a dimension that is no constant gets no split;
\* two levels give one split by the block size (512 when the knob is
\* negative), three give two splits, the outer by block count times block
\* size and the inner by the block size (1280 and 256 when the knobs are
\* negative)
Tiling(levels) ==
  LET bc == te_cuda_pointwise_block_count
      bs == te_cuda_pointwise_block_size
      tiled(i) == ~dynamicShapes(tensor_outputs_[i].dims)
      outs == 1..Len(tensor_outputs_)
  IN /\ ret.v.error = "Invalid loop-level" <=>
          (levels \notin {2, 3} /\ \E i \in outs : tiled(i))
     /\ ret.v.error = "" =>
          \A i \in outs :
            LET splits == codegen_.splits[i]
            IN /\ ~tiled(i) => splits = <<>>
               /\ (tiled(i) /\ levels = 2) =>
                    /\ Len(splits) = 1
                    /\ bs < 0 => splits[1] = 512
                    /\ bs > 0 => splits[1] = bs
               /\ (tiled(i) /\ levels = 3) =>
                    /\ Len(splits) = 2
                    /\ bs < 0 => splits[2] = 256
                    /\ bs > 0 => splits[2] = bs
                    /\ bc < 0 => splits[1] = 1280 * splits[2]
                    /\ bc > 0 => splits[1] = bc * splits[2]

\* C18 as stated: a negative loop-level knob stands for 2 levels, every
\* other value for itself
C18_Tiling ==
  (call.f = "LowerToBackend" /\ ret.done) =>
    Tiling(IF te_cuda_pointwise_loop_levels < 0 THEN 2
           ELSE te_cuda_pointwise_loop_levels)

\* C18, amended: a loop-level knob that is zero or negative stands for 2
\* levels, every other value for itself
C18_TilingNonPositive ==
  (call.f = "LowerToBackend" /\ ret.done) =>
    Tiling(IF te_cuda_pointwise_loop_levels <= 0 THEN 2
           ELSE te_cuda_pointwise_loop_levels)

\* C22: whatever the block-count and block-size knobs (negative, zero or
\* positive), with two loop levels and with three, every factor of a split
\* is positive, and a knob that is zero or negative has been replaced by its
\* default (512 with two levels; 1280 and 256 with three).
C22_PositiveSplits ==
  (call.f = "LowerToBackend" /\ ret.done /\ ret.v.error = "") =>
    \A i \in 1..Len(tensor_outputs_) :
      LET splits == codegen_.splits[i]
          bc == te_cuda_pointwise_block_count
          bs == te_cuda_pointwise_block_size
      IN /\ \A k \in 1..Len(splits) : splits[k] > 0
         /\ (Len(splits) = 1 /\ bs <= 0) => splits[1] = 512
         /\ (Len(splits) = 2 /\ bs <= 0) => splits[2] = 256
         /\ (Len(splits) = 2 /\ bc <= 0) => splits[1] = 1280 * splits[2]

\* the knob is 0 and the output of constant shape is split once, by 512,
\* while the output with a size variable is not split
C18_Witness ==
  /\ call.f = "LowerToBackend"
  /\ ret.done
  /\ te_cuda_pointwise_loop_levels = 0
  /\ te_cuda_pointwise_block_size = -1
  /\ ret.v.error = ""
  /\ Len(tensor_outputs_) = 2
  /\ codegen_.splits = <<<<>>, <<512>>>>

----------------------------------------------------------------------------
(* aten::unsqueeze (lines 740-753).  The output has rank n, the input rank *)
(* n - 1; the lambda erases one of the output's axes and reads the input   *)
(* at what is left.                                                        *)

MaxUnsqueezeRank == 3

\* lines 745-747: dim += axes.size() - 1 for a negative dim
UnsqueezeDim(dim, n) == IF dim < 0 THEN dim + (n - 1) ELSE dim

\* new_axes.erase(new_axes.begin() + dim), for dim within the vector
Erase(axes, dim) ==
  [a \in 1..(Len(axes) - 1) |-> IF a <= dim THEN axes[a] ELSE axes[a + 1]]

\* lines 749-751.  An erase before begin() is undefined: the call faults, or
\* some element is gone, or none
UnsqueezeOutcomes(input, dim, axes) ==
  LET at == UnsqueezeDim(dim, Len(axes))
  IN IF at >= 0
     THEN {[fault |-> FALSE, load |-> tensorOrConstantAt(input, Erase(axes, at))]}
     ELSE {[fault |-> TRUE]}
            \cup {[fault |-> FALSE, load |-> tensorOrConstantAt(input, Erase(axes, e))] :
                    e \in 0..(Len(axes) - 1)}
            \cup {[fault |-> FALSE, load |-> tensorOrConstantAt(input, axes)]}

UnsqueezeExtents == {1, 2, 3}

InitUnsqueeze ==
  /\ Idle
  /\ \E n \in 1..MaxUnsqueezeRank :
       \E dim \in (-n)..(n - 1), sizes \in [1..(n - 1) -> UnsqueezeExtents] :
         call = [f |-> "unsqueeze",
                 input |-> [kind |-> "Tensor", buf |-> BufferName(0), dtype |-> kFloat32,
                            sizes |-> sizes],
                 dim |-> dim, rank |-> n]
  /\ ret = NotDone

LowerUnsqueeze ==
  /\ ~ret.done
  /\ call.f = "unsqueeze"
  /\ \E outcome \in UnsqueezeOutcomes(call.input, call.dim, Axes(call.rank)) :
       ret' = Done(outcome)
  /\ UNCHANGED <<knobVars, enable_llvm, kernelVars, lockVars, runVars, call>>

NextUnsqueeze == LowerUnsqueeze

SpecUnsqueeze == InitUnsqueeze /\ [][NextUnsqueeze]_vars

\* the axis the output gains: d, or d + n for a negative d
InsertedAxis == IF call.dim < 0 THEN call.dim + call.rank ELSE call.dim

\* the extents of the output: the input's, with 1 at the inserted axis
UnsqueezedSizes ==
  [a \in 1..call.rank |->
     IF a = InsertedAxis + 1 THEN 1
     ELSE IF a <= InsertedAxis THEN call.input.sizes[a] ELSE call.input.sizes[a - 1]]

UnsqueezeIndices ==
  {env \in [AxisNames(call.rank) -> 0..2] :
     \A a \in 1..call.rank : env[AxisVar(a - 1).name] < UnsqueezedSizes[a]}

\* C21: for an output of rank n and an insertion dimension d in [0, n-1] or
\* in [-n, -1] (standing for d + n), the lowering succeeds and the output
\* element at every axis vector reads the input at that vector with the
\* inserted axis, and no other, removed.
C21_Unsqueeze ==
  (call.f = "unsqueeze" /\ ret.done) =>
    /\ ~ret.v.fault
    /\ \A env \in UnsqueezeIndices :
         ReadOf(ret.v.load, env) =
           [buf |-> call.input.buf,
            at |-> [a \in 1..(call.rank - 1) |->
                      env[AxisVar(IF a <= InsertedAxis THEN a - 1 ELSE a).name]]]

====
